---------------------------- MODULE Spec2Model ----------------------------
(***************************************************************************)
(* A model of the transcript pipeline of ShortsMaker and of its helpers:    *)
(*   - align_transcript_with_script   (ShortsMaker/utils/audio_transcript) *)
(*   - generate_audio_transcription, the backfill of missing timestamps    *)
(*                                    (ShortsMaker/utils/audio_transcript) *)
(*   - preprocess_audio_transcript and                                     *)
(*     process_audio_transcript_to_word_and_sentences_transcript           *)
(*                                    (ShortsMaker/moviepy_create_video)   *)
(*   - ShortsMaker._filter_word_transcript    (ShortsMaker/shorts_maker)   *)
(*   - tts and _process_chunks                (ShortsMaker/utils/get_tts)  *)
(*   - retry                                  (ShortsMaker/utils/retry)    *)
(* Every function has its own specification; the variables of the          *)
(* functions that are not running stay at their idle values.               *)
(* A Python str is a sequence of one-character strings, so that split(),   *)
(* strip(), " ".join() and word[-1] are computed and not assumed.          *)
(***************************************************************************)
EXTENDS Integers, Sequences, FiniteSets, TLC

VARIABLES
    \* align_transcript_with_script
    pc,               \* position in the function: "idle", "start", "loop", "done"
    transcript,       \* argument: sequence of [text, start, end]
    script_string,    \* argument: the script
    script_words,     \* local: the remaining reference tokens
    temp_transcript,  \* local: the output built so far
    possible_windows, \* local: the candidates of the latest iteration
    best_matches,     \* local best_match of every iteration so far
    remaining_before, \* len(script_words) at the start of every iteration so far
    \* process_audio_transcript_to_word_and_sentences_transcript
    gpc,                  \* position in the method: "idle", "start", "loop", "done"
    audio_transcript,     \* self.audio_transcript: sequence of [word, start, end]
    count,                \* number of entries the loop has processed
    word_transcript,      \* local
    sentences_transcript, \* local
    sentence_start,       \* local
    sentence_end,         \* local
    word_start,           \* local
    word_end,             \* local
    sentence,             \* local: the accumulator
    error_log,            \* the words self.logger.error was called for
    \* MoviepyCreateVideo.__init__
    loaded_transcript,    \* the transcript as _load_transcript returned it
    \* ShortsMaker._filter_word_transcript
    fpc,                  \* "idle", "start", "done"
    filter_transcript,    \* argument: sequence of [word, start, end]
    filtered,             \* the list returned
    \* generate_audio_transcription, lines 141-154
    bpc,                  \* "idle", "loop", "done", "raised"
    segments,             \* result["segments"]: the words of every segment
    seg_index,            \* the segment the outer loop is at
    word_index,           \* the word the inner loop is at
    aligned_words,        \* local word_transcript
    \* tts and _process_chunks
    tpc,                  \* "idle", "start", "endpoint", "workers", "done"
    chunks,               \* len(chunks)
    endpoint,             \* index in ENDPOINT_DATA of the endpoint at hand
    audio_data,           \* local of tts, the argument of _process_chunks:
                          \* [list |-> the list] or NoneData
    valid,                \* nonlocal of generate_audio_chunk
    worker,               \* position of every chunk's thread
    saved,                \* the arguments of every _save_audio call
    requests,             \* the calls of requests.post: [endpoint, chunk]
    responses,            \* what the calls brought back: [endpoint, chunk, status]
    \* retry
    rpc,                  \* "idle", "loop", "returned", "exhausted"
    max_retries,          \* argument of retry
    notify,               \* argument of retry
    func_args,            \* the arguments the wrapper is called with
    attempt,              \* loop variable
    calls,                \* the arguments of every call of func
    outcomes,             \* what every call of func did
    err,                  \* local
    returned,             \* the value the wrapper returns
    propagated,           \* the exception the wrapper lets through
    notifications,        \* the messages given to notify_discord
    \* ShortsMaker.generate_audio
    apc,                  \* "idle", "start", "tts", "done"
    source_txt,           \* argument
    speaker,              \* local: the voice given to tts
    audio_generated,      \* the value generate_audio returns
    \* shorts_maker.py, the module and ShortsMaker.__init__
    cpc,                  \* "idle", "imported", "constructed"
    cfg_retry,            \* self.cfg["retry"], or NoRetrySection
    MAX_RETRIES,          \* global of shorts_maker.py
    NOTIFY                \* global of shorts_maker.py

alignVars == <<pc, transcript, script_string, script_words, temp_transcript,
               possible_windows, best_matches, remaining_before>>

groupVars == <<gpc, audio_transcript, count, word_transcript, sentences_transcript,
               sentence_start, sentence_end, word_start, word_end, sentence,
               error_log>>

videoVars == <<loaded_transcript>>

filterVars == <<fpc, filter_transcript, filtered>>

backfillVars == <<bpc, segments, seg_index, word_index, aligned_words>>

ttsVars == <<tpc, chunks, endpoint, audio_data, valid, worker, saved, requests,
             responses>>

retryVars == <<rpc, max_retries, notify, func_args, attempt, calls, outcomes, err,
               returned, propagated, notifications>>

audioVars == <<apc, source_txt, speaker, audio_generated>>

configVars == <<cpc, cfg_retry, MAX_RETRIES, NOTIFY>>

vars == <<alignVars, groupVars, videoVars, filterVars, backfillVars, ttsVars,
          retryVars, audioVars, configVars>>

\* what each function leaves alone
notAlign == <<groupVars, videoVars, filterVars, backfillVars, ttsVars, retryVars,
              audioVars, configVars>>
notGroup == <<alignVars, videoVars, filterVars, backfillVars, ttsVars, retryVars,
              audioVars, configVars>>
notVideo == <<alignVars, filterVars, backfillVars, ttsVars, retryVars,
              audioVars, configVars>>
notFilter == <<alignVars, groupVars, videoVars, backfillVars, ttsVars, retryVars,
               audioVars, configVars>>
notBackfill == <<alignVars, groupVars, videoVars, filterVars, ttsVars, retryVars,
                 audioVars, configVars>>
notTts == <<alignVars, groupVars, videoVars, filterVars, backfillVars, retryVars,
            audioVars, configVars>>
notRetry == <<alignVars, groupVars, videoVars, filterVars, backfillVars, ttsVars,
              audioVars, configVars>>

\* the absent value
None == "None"

\* align_transcript_with_script is not running
AlignIdle ==
    /\ pc = "idle"
    /\ transcript = <<>>
    /\ script_string = <<>>
    /\ script_words = <<>>
    /\ temp_transcript = <<>>
    /\ possible_windows = <<>>
    /\ best_matches = <<>>
    /\ remaining_before = <<>>

\* process_audio_transcript_to_word_and_sentences_transcript is not running
GroupIdle ==
    /\ gpc = "idle"
    /\ audio_transcript = <<>>
    /\ count = 0
    /\ word_transcript = <<>>
    /\ sentences_transcript = <<>>
    /\ sentence_start = 0
    /\ sentence_end = 0
    /\ word_start = 0
    /\ word_end = 0
    /\ sentence = <<>>
    /\ error_log = <<>>

\* no MoviepyCreateVideo is being constructed
VideoIdle == loaded_transcript = <<>>

\* _filter_word_transcript is not running
FilterIdle ==
    /\ fpc = "idle"
    /\ filter_transcript = <<>>
    /\ filtered = <<>>

\* generate_audio_transcription is not running
BackfillIdle ==
    /\ bpc = "idle"
    /\ segments = <<>>
    /\ seg_index = 0
    /\ word_index = 0
    /\ aligned_words = <<>>

\* audio_data when it is None and not a list
NoneData == [none |-> TRUE]

\* tts is not running
TtsIdle ==
    /\ tpc = "idle"
    /\ chunks = 0
    /\ endpoint = 0
    /\ audio_data = NoneData
    /\ valid = TRUE
    /\ worker = <<>>
    /\ saved = <<>>
    /\ requests = {}
    /\ responses = {}

\* no retry wrapper is running
RetryIdle ==
    /\ rpc = "idle"
    /\ max_retries = 0
    /\ notify = FALSE
    /\ func_args = None
    /\ attempt = 0
    /\ calls = <<>>
    /\ outcomes = <<>>
    /\ err = None
    /\ returned = None
    /\ propagated = None
    /\ notifications = <<>>

\* generate_audio is not running
AudioIdle ==
    /\ apc = "idle"
    /\ source_txt = <<>>
    /\ speaker = None
    /\ audio_generated = None

\* self.cfg when it has no "retry" section
NoRetrySection == [absent |-> TRUE]

\* shorts_maker.py is not looked at
ConfigIdle ==
    /\ cpc = "idle"
    /\ cfg_retry = NoRetrySection
    /\ MAX_RETRIES = 0
    /\ NOTIFY = FALSE

\* every function but those named is not running
IdleExcept(running) ==
    /\ "align" \in running \/ AlignIdle
    /\ "group" \in running \/ GroupIdle
    /\ "video" \in running \/ VideoIdle
    /\ "filter" \in running \/ FilterIdle
    /\ "backfill" \in running \/ BackfillIdle
    /\ "tts" \in running \/ TtsIdle
    /\ "retry" \in running \/ RetryIdle
    /\ "audio" \in running \/ AudioIdle
    /\ "config" \in running \/ ConfigIdle

----------------------------------------------------------------------------
(* Bounds of the model *)

MaxSegments == 2
MaxScriptWords == 3
MaxTextWords == 2
MaxWords == 3

----------------------------------------------------------------------------
(* Python strings *)

Min(a, b) == IF a < b THEN a ELSE b
Max(a, b) == IF a > b THEN a ELSE b

\* every sequence over S of length at most n
SeqsUpTo(S, n) == UNION {[1..k -> S] : k \in 0..n}

RECURSIVE SplitAcc(_, _, _)
SplitAcc(s, cur, acc) ==
    IF s = <<>>
    THEN IF cur = <<>> THEN acc ELSE Append(acc, cur)
    ELSE IF Head(s) = " "
         THEN SplitAcc(Tail(s), <<>>, IF cur = <<>> THEN acc ELSE Append(acc, cur))
         ELSE SplitAcc(Tail(s), Append(cur, Head(s)), acc)

\* str.split(): the maximal runs of non-whitespace characters
split(s) == SplitAcc(s, <<>>, <<>>)

RECURSIVE join(_)
\* " ".join(words)
join(words) ==
    IF words = <<>> THEN <<>>
    ELSE IF Len(words) = 1 THEN words[1]
    ELSE words[1] \o <<" ">> \o join(Tail(words))

\* seq[:m], a negative m counting from the end
SliceTo(seq, m) ==
    IF m >= 0 THEN SubSeq(seq, 1, Min(m, Len(seq)))
    ELSE SubSeq(seq, 1, Max(Len(seq) + m, 0))

\* seq[m:] for m >= 0
SliceFrom(seq, m) == SubSeq(seq, Min(m, Len(seq)) + 1, Len(seq))

----------------------------------------------------------------------------
(* align_transcript_with_script *)

window_sizes == <<0, 1, 2, 3, 4, 5>>

length_of_entry_text(entry) == Len(split(entry.text))

RECURSIVE WindowsFrom(_, _, _)
WindowsFrom(words, n, i) ==
    IF i > Len(window_sizes) THEN <<>>
    ELSE << join(SliceTo(words, n + window_sizes[i])),
            join(SliceTo(words, n - window_sizes[i])) >>
         \o WindowsFrom(words, n, i + 1)

\* the candidates of one entry, in the order they are generated
PossibleWindows(words, n) == WindowsFrom(words, n, 1)

Range(f) == {f[i] : i \in DOMAIN f}

\* The scorer is rapidfuzz's: any score may come back for a pair of strings,
\* the same pair always scores the same, and a string identical to the query
\* scores the maximum.
Scores == {0, 100}
Scorers(query, choices) ==
    {sc \in [Range(choices) -> Scores] :
        \A c \in Range(choices) : (c = query) => (sc[c] = 100)}

\* the last of the best choices kept (>= for > in the comparison)
LastBest(choices, sc) ==
    CHOOSE i \in DOMAIN choices :
        /\ \A j \in DOMAIN choices : sc[choices[j]] <= sc[choices[i]]
        /\ \A j \in (i + 1)..Len(choices) : sc[choices[j]] < sc[choices[i]]

\* process.extractOne: the first choice whose score no other choice exceeds
FirstBest(choices, sc) ==
    CHOOSE i \in DOMAIN choices :
        /\ \A j \in DOMAIN choices : sc[choices[j]] <= sc[choices[i]]
        /\ \A j \in 1..(i - 1) : sc[choices[j]] < sc[choices[i]]

ExtractOne(choices, sc) == choices[FirstBest(choices, sc)]

\* every best_match the call of line 54 can return
BestMatches(query, choices) ==
    {ExtractOne(choices, sc) : sc \in Scorers(query, choices)}

\* truth value of a str
Truthy(s) == s # <<>>

\* the cursor advanced by len(best_match), the characters, not the tokens
RemainingAfterChars(words, best_match) ==
    IF Truthy(best_match) THEN SliceFrom(words, Len(best_match)) ELSE words

RemainingAfter(words, best_match) ==
    IF Truthy(best_match) THEN SliceFrom(words, Len(split(best_match))) ELSE words

\* start and end exchanged
AlignedEntrySwapped(entry, best_match) ==
    [text  |-> IF Truthy(best_match) THEN best_match ELSE entry.text,
     start |-> entry.end,
     end   |-> entry.start]

\* the fallback to the recognized text forgotten
AlignedEntryNoFallback(entry, best_match) ==
    [text |-> best_match, start |-> entry.start, end |-> entry.end]

AlignedEntry(entry, best_match) ==
    [text  |-> IF Truthy(best_match) THEN best_match ELSE entry.text,
     start |-> entry.start,
     end   |-> entry.end]

Tokens == {<<"a">>, <<"b">>}
TextTokens == {<<"a">>}
\* the scripts: tokens separated by one space, also with whitespace around
ScriptStrings ==
    LET plain == {join(ws) : ws \in SeqsUpTo(Tokens, MaxScriptWords)}
    IN  plain \cup {<<" ">> \o s \o <<" ">> : s \in {p \in plain : Len(split(p)) = 1}}
\* the recognized texts: tokens separated by one space, also with more
\* whitespace, and a token the script's first words may or may not hold
SegmentTexts ==
    LET plain == {join(ws) : ws \in SeqsUpTo(TextTokens, MaxTextWords)}
    IN  plain \cup {<<" ">> \o s : s \in {p \in plain : Len(split(p)) = 1}}
              \cup {t \in Tokens : t \notin TextTokens}
\* The function only copies start and end. Segment i is given times that differ
\* from every other segment's and from each other, with start > end at the even
\* positions (start <= end is not guaranteed by the recognizer).
SegmentStart(i) == i
SegmentEnd(i) == IF i % 2 = 1 THEN i + 1 ELSE i - 1
Transcripts ==
    {[i \in DOMAIN texts |->
        [text |-> texts[i], start |-> SegmentStart(i), end |-> SegmentEnd(i)]] :
     texts \in SeqsUpTo(SegmentTexts, MaxSegments)}

AlignInit ==
    /\ pc = "start"
    /\ transcript \in Transcripts
    /\ script_string \in ScriptStrings
    /\ script_words = <<>>
    /\ temp_transcript = <<>>
    /\ possible_windows = <<>>
    /\ best_matches = <<>>
    /\ remaining_before = <<>>
    /\ IdleExcept({"align"})

\* lines 36-38
AlignStart ==
    /\ pc = "start"
    /\ pc' = "loop"
    /\ script_words' = split(script_string)
    /\ temp_transcript' = <<>>
    /\ UNCHANGED <<transcript, script_string, possible_windows, best_matches,
                   remaining_before>>
    /\ UNCHANGED notAlign

\* lines 40-72: one iteration of the loop over the transcript
AlignEntry ==
    /\ pc = "loop"
    /\ Len(temp_transcript) < Len(transcript)
    /\ LET entry == transcript[Len(temp_transcript) + 1]
           windows == PossibleWindows(script_words, length_of_entry_text(entry))
       IN  \E best_match \in BestMatches(entry.text, windows) :
             /\ possible_windows' = windows
             /\ script_words' = RemainingAfter(script_words, best_match)
             /\ temp_transcript' = Append(temp_transcript, AlignedEntry(entry, best_match))
             /\ best_matches' = Append(best_matches, best_match)
             /\ remaining_before' = Append(remaining_before, Len(script_words))
    /\ UNCHANGED <<pc, transcript, script_string>>
    /\ UNCHANGED notAlign

\* line 73
AlignReturn ==
    /\ pc = "loop"
    /\ Len(temp_transcript) = Len(transcript)
    /\ pc' = "done"
    /\ UNCHANGED <<transcript, script_string, script_words, temp_transcript,
                   possible_windows, best_matches, remaining_before>>
    /\ UNCHANGED notAlign

AlignNext == AlignStart \/ AlignEntry \/ AlignReturn

SpecAlign == AlignInit /\ [][AlignNext]_vars


----------------------------------------------------------------------------
(* Claims about align_transcript_with_script *)

RECURSIVE Flatten(_)
Flatten(seqs) == IF seqs = <<>> THEN <<>> ELSE Head(seqs) \o Flatten(Tail(seqs))

OriginalWords == split(script_string)
Removed == Len(OriginalWords) - Len(script_words)
\* the tokens of the texts assigned to the matched segments, in segment order
MatchedTokens ==
    Flatten([i \in 1..Len(temp_transcript) |->
                IF Truthy(best_matches[i]) THEN split(temp_transcript[i].text) ELSE <<>>])
\* len(script_words) at the end of iteration i
RemainingAfterIteration(i) ==
    IF i < Len(remaining_before) THEN remaining_before[i + 1] ELSE Len(script_words)

C2_MonotonicPrefixConsumption ==
    pc # "start" =>
        /\ Removed >= 0
        /\ Removed <= Len(OriginalWords)
        /\ script_words = SliceFrom(OriginalWords, Removed)
        /\ MatchedTokens = SubSeq(OriginalWords, 1, Removed)
        /\ \A i \in 1..Len(remaining_before) :
              RemainingAfterIteration(i) <= remaining_before[i]

C2_Witness ==
    /\ pc = "done"
    /\ Len(temp_transcript) = 2
    /\ Truthy(best_matches[1])
    /\ Truthy(best_matches[2])
    /\ Len(split(best_matches[1])) = 2
    /\ Removed = 3
    /\ OriginalWords[1] # OriginalWords[3]

ExactTranscript ==
    /\ \A i \in 1..Len(transcript) :
          /\ Truthy(transcript[i].text)
          /\ transcript[i].text = join(split(transcript[i].text))
    /\ LET spelled == Flatten([i \in 1..Len(transcript) |-> split(transcript[i].text)])
       IN  /\ Len(spelled) <= Len(OriginalWords)
           /\ spelled = SubSeq(OriginalWords, 1, Len(spelled))

\* C4: when the segment texts are exactly consecutive runs of the script's
\* tokens from the first token on, every segment keeps its text.
C4_ExactMatchUnchanged ==
    ExactTranscript =>
        \A i \in 1..Len(temp_transcript) : temp_transcript[i].text = transcript[i].text

C4_Witness ==
    /\ pc = "done"
    /\ ExactTranscript
    /\ Len(temp_transcript) = 2
    /\ Len(split(transcript[1].text)) = 2
    /\ Len(script_words) = 0
    /\ Len(OriginalWords) = 3

\* C5: for a segment of n tokens, the candidate generated for a window length
\* n - k < 0 is the empty string.
C5_NegativeWindowIsEmpty ==
    possible_windows # <<>> =>
        LET n == length_of_entry_text(transcript[Len(temp_transcript)])
        IN  \A j \in DOMAIN window_sizes :
                n - window_sizes[j] < 0 => possible_windows[2 * j] = <<>>

----------------------------------------------------------------------------
(* MoviepyCreateVideo.process_audio_transcript_to_word_and_sentences_transcript *)

PUNCTUATION_MARKS == {".", ";", ":", "!", "?", ","}

RECURSIVE lstrip(_)
lstrip(s) == IF s # <<>> /\ Head(s) = " " THEN lstrip(Tail(s)) ELSE s

RECURSIVE rstrip(_)
rstrip(s) ==
    IF s # <<>> /\ s[Len(s)] = " " THEN rstrip(SubSeq(s, 1, Len(s) - 1)) ELSE s

\* str.strip()
strip(s) == rstrip(lstrip(s))

\* word[-1] raises IndexError on the empty string
RaisesIndexError(word) == word = <<>>

\* a narrower except clause, which lets IndexError through
ExceptKeyError(exc) == exc = "KeyError"

\* line 531, except Exception: every exception a statement of the try block raises
ExceptException(exc) == exc \in {"IndexError", "KeyError", "TypeError", "ValueError"}

\* the exclusion of "..." forgotten
ClosesSentenceAtEllipsis(word) == word[Len(word)] \in PUNCTUATION_MARKS

\* line 520, for a word that has a last character
ClosesSentence(word) ==
    word[Len(word)] \in PUNCTUATION_MARKS /\ word # <<".", ".", ".">>

\* the entry's own start taken for the start
WordEntryOwnStart(entry, acc, start) ==
    [word |-> acc, start |-> entry.start, end |-> entry.end]

\* lines 509-516, with the word alone and not the accumulator
WordEntryWordOnly(entry, acc, start) ==
    [word |-> strip(entry.word) \o <<" ">>, start |-> start, end |-> entry.end]

\* lines 509-516
WordEntry(entry, acc, start) ==
    [word |-> acc, start |-> start, end |-> entry.end]

\* the start of the latest word taken for the start of the sentence
SentenceEntryWordStart(acc, start, end) ==
    [sentence |-> acc, start |-> word_start, end |-> end]

\* lines 523-527 and 537-541
SentenceEntry(acc, start, end) ==
    [sentence |-> acc, start |-> start, end |-> end]

\* the final sentence never added
FinalSentencesNoFlush(sentences, acc, start, end) == sentences

\* lines 534-542
FinalSentences(sentences, acc, start, end) ==
    IF acc # <<>> THEN Append(sentences, SentenceEntry(acc, start, end)) ELSE sentences

\* the recognized words: plain, ending a sentence, the ellipsis, empty,
\* whitespace only, and with whitespace around
Words ==
    { <<"a">>, <<"a", ".">>, <<".", ".", ".">>, <<>>, <<" ">>,
      <<" ", "a", ",">>, <<" ", ".", ".", ".">> }
WordEnds == {1, 2}
WordEntries == {[word |-> w, start |-> 0, end |-> e] : w \in Words, e \in WordEnds}

GroupInit ==
    /\ gpc = "start"
    /\ audio_transcript \in SeqsUpTo(WordEntries, MaxWords)
    /\ count = 0
    /\ word_transcript = <<>>
    /\ sentences_transcript = <<>>
    /\ sentence_start = 0
    /\ sentence_end = 0
    /\ word_start = 0
    /\ word_end = 0
    /\ sentence = <<>>
    /\ error_log = <<>>
    /\ IdleExcept({"group"})

\* lines 494-503
GroupStart ==
    /\ gpc = "start"
    /\ gpc' = "loop"
    /\ word_transcript' = <<>>
    /\ sentences_transcript' = <<>>
    /\ sentence_start' = 0
    /\ sentence_end' = 0
    /\ word_start' = 0
    /\ word_end' = 0
    /\ sentence' = <<>>
    /\ UNCHANGED <<audio_transcript, count, error_log>>
    /\ UNCHANGED notGroup

\* lines 505-532: one iteration of the loop over self.audio_transcript
GroupWord ==
    /\ gpc = "loop"
    /\ count < Len(audio_transcript)
    /\ LET entry == audio_transcript[count + 1]
           word == strip(entry.word)
           acc == sentence \o word \o <<" ">>
       IN  /\ count' = count + 1
           /\ word_end' = entry.end
           /\ word_transcript' = Append(word_transcript, WordEntry(entry, acc, word_start))
           /\ word_start' = entry.end
           /\ IF RaisesIndexError(word)
              THEN IF ExceptException("IndexError")
                   THEN /\ error_log' = Append(error_log, word)
                        /\ sentence' = acc
                        /\ UNCHANGED <<gpc, sentence_end, sentences_transcript,
                                       sentence_start>>
                   ELSE /\ gpc' = "raised"
                        /\ sentence' = acc
                        /\ UNCHANGED <<error_log, sentence_end, sentences_transcript,
                                       sentence_start>>
              ELSE IF ClosesSentence(word)
              THEN /\ sentence_end' = entry.end
                   /\ sentences_transcript' =
                          Append(sentences_transcript,
                                 SentenceEntry(acc, sentence_start, entry.end))
                   /\ sentence_start' = entry.end
                   /\ sentence' = <<>>
                   /\ UNCHANGED <<gpc, error_log>>
              ELSE /\ sentence' = acc
                   /\ UNCHANGED <<gpc, sentence_end, sentences_transcript,
                                  sentence_start, error_log>>
    /\ UNCHANGED audio_transcript
    /\ UNCHANGED notGroup

\* lines 534-544
GroupReturn ==
    /\ gpc = "loop"
    /\ count = Len(audio_transcript)
    /\ gpc' = "done"
    /\ sentences_transcript' =
           FinalSentences(sentences_transcript, sentence, sentence_start, sentence_end)
    /\ UNCHANGED <<audio_transcript, count, word_transcript, sentence_start,
                   sentence_end, word_start, word_end, sentence, error_log>>
    /\ UNCHANGED notGroup

GroupNext == GroupStart \/ GroupWord \/ GroupReturn

SpecGroup == GroupInit /\ [][GroupNext]_vars

----------------------------------------------------------------------------
(* Claims about the grouping of words into sentences *)

\* the first k input words, each trimmed and followed by one space
TrimmedWords(k) ==
    Flatten([i \in 1..k |-> strip(audio_transcript[i].word) \o <<" ">>])

SentenceTexts ==
    Flatten([j \in 1..Len(sentences_transcript) |-> sentences_transcript[j].sentence])

\* C6: no word is lost, duplicated or reordered: the sentence texts (and, while
\* the loop runs, the accumulator after them) spell the trimmed input words, each
\* followed by one space; a non-empty accumulator is flushed as the final entry.
C6_SentencesSpellTheWords ==
    /\ gpc = "loop" => SentenceTexts \o sentence = TrimmedWords(count)
    /\ gpc = "done" =>
          /\ SentenceTexts = TrimmedWords(Len(audio_transcript))
          /\ sentence # <<>> =>
                /\ sentences_transcript # <<>>
                /\ sentences_transcript[Len(sentences_transcript)].sentence = sentence

C6_Witness ==
    /\ gpc = "done"
    /\ Len(audio_transcript) = 3
    /\ Len(sentences_transcript) = 2
    /\ sentence # <<>>
    /\ sentence_end > 0
    /\ audio_transcript[1].word # strip(audio_transcript[1].word)
    /\ strip(audio_transcript[3].word) # <<>>

\* a terminating word, in the claim's words
Terminates(w) ==
    LET t == strip(w)
    IN  /\ t # <<>>
        /\ t[Len(t)] \in {".", ";", ":", "!", "?", ","}
        /\ t # <<".", ".", ".">>
Terminators(k) == {i \in 1..k : Terminates(audio_transcript[i].word)}
LastTerminator(k) ==
    IF Terminators(k) = {} THEN 0
    ELSE CHOOSE i \in Terminators(k) : \A j \in Terminators(k) : j <= i

\* C7: a sentence is closed exactly at the terminating words (never at "..."):
\* while the loop runs there is one entry per terminating word seen and the
\* accumulator is empty exactly when the latest word terminated; on return there
\* is one more entry if words remain after the last terminating word.
C7_ClosedExactlyAtTerminators ==
    /\ gpc = "loop" =>
          /\ Len(sentences_transcript) = Cardinality(Terminators(count))
          /\ (sentence = <<>>) <=> (LastTerminator(count) = count)
    /\ gpc = "done" =>
          Len(sentences_transcript) =
              Cardinality(Terminators(count))
                  + (IF LastTerminator(count) < count THEN 1 ELSE 0)

C7_Witness ==
    /\ gpc = "done"
    /\ Len(audio_transcript) = 3
    /\ strip(audio_transcript[1].word) = <<".", ".", ".">>
    /\ audio_transcript[2].word = <<" ", "a", ",">>
    /\ audio_transcript[3].word = <<".", ".", ".">>
    /\ Len(sentences_transcript) = 2

\* C8: one word entry per input word, in input order; entry i ends where input
\* word i ends, the first starts at 0 and every other starts where the entry
\* before it ends.
C8_WordEntriesTileTheTimeline ==
    /\ Len(word_transcript) = count
    /\ gpc = "done" => Len(word_transcript) = Len(audio_transcript)
    /\ \A i \in 1..Len(word_transcript) :
          /\ word_transcript[i].end = audio_transcript[i].end
          /\ word_transcript[i].start =
                 IF i = 1 THEN 0 ELSE word_transcript[i - 1].end

C8_Witness ==
    /\ gpc = "done"
    /\ Len(word_transcript) = 3
    /\ Len(sentences_transcript) = 2
    /\ Terminates(audio_transcript[2].word)
    /\ word_transcript[3].start = 2
    /\ word_transcript[3].end = 1

\* the input word that completes sentence entry j: the j-th terminating word,
\* or the last word for the entry flushed after the loop
CompletingWord(j) ==
    IF j <= Cardinality(Terminators(count))
    THEN CHOOSE i \in Terminators(count) : Cardinality(Terminators(i)) = j
    ELSE count

\* C9: every sentence entry ends where the last input word it contains ends.
C9_SentenceEndsWithItsLastWord ==
    gpc = "done" =>
        \A j \in 1..Len(sentences_transcript) :
            sentences_transcript[j].end = audio_transcript[CompletingWord(j)].end

\* C10: the first sentence entry starts at 0 and every later one starts where
\* the entry before it ends.
C10_SentenceStartsChain ==
    \A j \in 1..Len(sentences_transcript) :
        sentences_transcript[j].start =
            IF j = 1 THEN 0 ELSE sentences_transcript[j - 1].end

C10_Witness ==
    /\ gpc = "done"
    /\ Len(sentences_transcript) = 3
    /\ sentence # <<>>
    /\ sentences_transcript[2].start = 2
    /\ sentences_transcript[3].start = 1

\* the input words among the first k that are empty once trimmed
EmptyWords(k) == {i \in 1..k : strip(audio_transcript[i].word) = <<>>}

\* C11: an empty or whitespace-only word never aborts the grouping: the error
\* is caught and logged once per such word, the word closes no sentence (the
\* accumulator keeps it, and every closed sentence ends with a punctuation mark
\* and one space), and on return there is one word entry per input word.
C11_EmptyWordNeverAborts ==
    /\ gpc # "raised"
    /\ Len(error_log) = Cardinality(EmptyWords(count))
    /\ (gpc = "loop" /\ count \in EmptyWords(count)) => sentence # <<>>
    /\ gpc = "loop" =>
          \A j \in 1..Len(sentences_transcript) :
              LET text == sentences_transcript[j].sentence
              IN  /\ Len(text) >= 2
                  /\ text[Len(text) - 1] \in {".", ";", ":", "!", "?", ","}
    /\ gpc = "done" =>
          /\ count = Len(audio_transcript)
          /\ Len(word_transcript) = Len(audio_transcript)

C11_Witness ==
    /\ gpc = "done"
    /\ Len(audio_transcript) = 3
    /\ audio_transcript[1].word = <<>>
    /\ audio_transcript[2].word = <<" ">>
    /\ Terminates(audio_transcript[3].word)
    /\ Len(error_log) = 2
    /\ Len(word_transcript) = 3
    /\ Len(sentences_transcript) = 1

-----------------------------------------------------------------------------
(***************************************************************************)
(* MoviepyCreateVideo.__init__, lines 98-102: the loaded transcript is     *)
(* preprocessed and then grouped.                                          *)
(***************************************************************************)

\* lines 472-474, with the end of every entry set to its own start
preprocess_end_is_own_start(t) ==
    [i \in 1..Len(t) |->
        IF i < Len(t) THEN [t[i] EXCEPT !.end = t[i].start] ELSE t[i]]

\* lines 472-474, with the loop left out
preprocess_nothing(t) == t

\* lines 472-474: for i in range(len - 1): t[i]["end"] = t[i + 1]["start"].
\* The loop only writes "end" and only reads "start", so its iterations do not
\* depend on one another.
preprocess_audio_transcript(t) ==
    [i \in 1..Len(t) |->
        IF i < Len(t) THEN [t[i] EXCEPT !.end = t[i + 1].start] ELSE t[i]]

\* the transcripts _load_transcript may return
VideoWords == { <<"a">>, <<"a", ".">> }
VideoStarts == {0, 1, 2}
VideoEnds == {1, 3}
VideoEntries ==
    {[word |-> w, start |-> s, end |-> e] :
        w \in VideoWords, s \in VideoStarts, e \in VideoEnds}

\* line 98
VideoInit ==
    /\ gpc = "loaded"
    /\ audio_transcript \in SeqsUpTo(VideoEntries, MaxWords)
    /\ loaded_transcript = audio_transcript
    /\ count = 0
    /\ word_transcript = <<>>
    /\ sentences_transcript = <<>>
    /\ sentence_start = 0
    /\ sentence_end = 0
    /\ word_start = 0
    /\ word_end = 0
    /\ sentence = <<>>
    /\ error_log = <<>>
    /\ IdleExcept({"group", "video"})

\* line 99
Preprocess ==
    /\ gpc = "loaded"
    /\ gpc' = "start"
    /\ audio_transcript' = preprocess_audio_transcript(audio_transcript)
    /\ UNCHANGED <<count, word_transcript, sentences_transcript, sentence_start,
                   sentence_end, word_start, word_end, sentence, error_log>>
    /\ UNCHANGED loaded_transcript
    /\ UNCHANGED notVideo

\* lines 99-102
VideoNext == Preprocess \/ GroupStart \/ GroupWord \/ GroupReturn

SpecVideo == VideoInit /\ [][VideoNext]_vars

\* C12: preprocess_audio_transcript returns a transcript of the same length and
\* order in which every entry before the last ends where the next entry starts;
\* the last entry's end, every start and every word are unchanged.
C12_EndIsNextStart ==
    gpc # "loaded" =>
        /\ Len(audio_transcript) = Len(loaded_transcript)
        /\ \A i \in 1..Len(audio_transcript) :
              /\ audio_transcript[i].word = loaded_transcript[i].word
              /\ audio_transcript[i].start = loaded_transcript[i].start
              /\ audio_transcript[i].end =
                     IF i < Len(loaded_transcript)
                     THEN loaded_transcript[i + 1].start
                     ELSE loaded_transcript[i].end

\* a transcript of three words with gaps and overlaps has been preprocessed
C12_Witness ==
    /\ gpc = "start"
    /\ Len(loaded_transcript) = 3
    /\ loaded_transcript[1].end < loaded_transcript[2].start
    /\ loaded_transcript[2].end > loaded_transcript[3].start
    /\ loaded_transcript[3].end # loaded_transcript[3].start
    /\ audio_transcript # loaded_transcript

\* C13: after preprocessing and grouping, the caption of word i is displayed
\* until word i+1 begins: every word entry before the last ends at the next
\* input word's original start, and every word entry after the first starts at
\* its input word's original start.
C13_CaptionRunsUntilNextWord ==
    gpc = "done" =>
        /\ Len(word_transcript) = Len(loaded_transcript)
        /\ \A i \in 1..(Len(word_transcript) - 1) :
              word_transcript[i].end = loaded_transcript[i + 1].start
        /\ \A i \in 2..Len(word_transcript) :
              word_transcript[i].start = loaded_transcript[i].start

\* three words with a silence gap between the first two were grouped
C13_Witness ==
    /\ gpc = "done"
    /\ Len(loaded_transcript) = 3
    /\ loaded_transcript[1].end < loaded_transcript[2].start
    /\ loaded_transcript[2].end # loaded_transcript[3].start
    /\ Len(word_transcript) = 3
    /\ word_transcript[1].end = loaded_transcript[2].start

-----------------------------------------------------------------------------
(***************************************************************************)
(* ShortsMaker._filter_word_transcript, shorts_maker.py lines 593-601.     *)
(***************************************************************************)
MaxEntries == 2

\* line 600, with a duration of exactly 5 kept
KeepEntryUpToFive(entry) == entry.start > 0 /\ (entry.end - entry.start) <= 5

\* line 600, with the end compared and not the duration
KeepEntryEndBelowFive(entry) == entry.start > 0 /\ entry.end < 5

\* line 600: the condition of the comprehension
KeepEntry(entry) == entry.start > 0 /\ (entry.end - entry.start) < 5

\* [entry for entry in transcript if ...], lines 597-601
RECURSIVE filter_word_transcript(_)
filter_word_transcript(t) ==
    IF t = <<>> THEN <<>>
    ELSE IF KeepEntry(Head(t))
         THEN <<Head(t)>> \o filter_word_transcript(Tail(t))
         ELSE filter_word_transcript(Tail(t))

\* the word transcripts generate_audio_transcription may hand over (line 563):
\* times in seconds from the start of the audio, so never negative
FilterWords == { <<"a">>, <<"b">> }
FilterStarts == {0, 1, 2}
FilterEnds == {1, 5, 6, 7}
FilterEntries ==
    {[word |-> w, start |-> s, end |-> e] :
        w \in FilterWords, s \in FilterStarts, e \in FilterEnds}

FilterInit ==
    /\ fpc = "start"
    /\ filter_transcript \in SeqsUpTo(FilterEntries, MaxEntries)
    /\ filtered = <<>>
    /\ IdleExcept({"filter"})

\* lines 597-601
Filter ==
    /\ fpc = "start"
    /\ fpc' = "done"
    /\ filtered' = filter_word_transcript(filter_transcript)
    /\ UNCHANGED filter_transcript
    /\ UNCHANGED notFilter

FilterNext == Filter

SpecFilter == FilterInit /\ [][FilterNext]_vars

\* out is made of entries of inp, unmodified and in their order
IsSubsequence(out, inp) ==
    \E f \in [1..Len(out) -> 1..Len(inp)] :
        /\ \A j \in 1..Len(out) : out[j] = inp[f[j]]
        /\ \A j, k \in 1..Len(out) : j < k => f[j] < f[k]

\* C14: the output of _filter_word_transcript is an order-preserving
\* subsequence of its input with every kept entry unmodified; it holds no entry
\* with start = 0 and no entry with end - start >= 5.
C14_OutputIsCleanSubsequence ==
    fpc = "done" =>
        /\ IsSubsequence(filtered, filter_transcript)
        /\ \A j \in 1..Len(filtered) :
              /\ filtered[j].start # 0
              /\ ~(filtered[j].end - filtered[j].start >= 5)

\* an entry that lasts exactly 5 seconds was dropped and the entry after it,
\* which lasts 4 seconds, was kept
C14_Witness ==
    /\ fpc = "done"
    /\ Len(filter_transcript) = 2
    /\ filter_transcript[1].start > 0
    /\ filter_transcript[1].end - filter_transcript[1].start = 5
    /\ filter_transcript[2].end - filter_transcript[2].start = 4
    /\ filtered = <<filter_transcript[2]>>

\* the entries the description lets through
PassesThrough(entry) == entry.start # 0 /\ entry.end - entry.start < 5

\* C15: _filter_word_transcript drops nothing else: every input entry whose
\* start is not 0 and whose duration is less than 5 is in the output, as often
\* as it is in the input.
C15_NothingElseDropped ==
    fpc = "done" =>
        /\ \A i \in 1..Len(filter_transcript) :
              PassesThrough(filter_transcript[i]) =>
                  \E j \in 1..Len(filtered) : filtered[j] = filter_transcript[i]
        /\ Len(filtered) =
               Cardinality({i \in 1..Len(filter_transcript) :
                               PassesThrough(filter_transcript[i])})

\* an entry that ends after second 5 and lasts less than 5 seconds was kept
C15_Witness ==
    /\ fpc = "done"
    /\ \E j \in 1..Len(filtered) :
          /\ filtered[j].end > 5
          /\ filtered[j].end - filtered[j].start = 4
    /\ Len(filtered) = Len(filter_transcript)
    /\ Len(filtered) = 2

-----------------------------------------------------------------------------
(***************************************************************************)
(* generate_audio_transcription, audio_transcript.py lines 141-154: the    *)
(* words of whisperx.align are copied to the word transcript, and a word   *)
(* that came back without timestamps gets them from its neighbours.        *)
(***************************************************************************)
MaxSegmentWords == 3

\* "start" in word
HasStart(word) == "start" \in DOMAIN word

\* line 144: word["start"], for the word at 0-based index of words
BackfilledStart(words, index) ==
    IF index > 0 THEN words[index].end ELSE 0

\* line 146: index < len(segments["words"]) - 1
HasNextWord(words, index) == index < Len(words) - 1

\* lines 145-149 raise KeyError: the next word has no "start" either
RaisesKeyError(words, index) ==
    HasNextWord(words, index) /\ ~HasStart(words[index + 2])

\* lines 145-149: word["end"], evaluated after word["start"] was assigned, so
\* that segments["words"][-1]["start"] is the start of line 144 for the last word
BackfilledEnd(words, index) ==
    IF HasNextWord(words, index)
    THEN words[index + 2].start
    ELSE BackfilledStart(words, index)

\* the words whisperx.align may return: with both timestamps or with neither
AlignedWords ==
    { [word |-> <<"a">>],
      [word |-> <<"b">>, start |-> 1, end |-> 2] }

BackfillInit ==
    /\ bpc = "loop"
    /\ segments \in SeqsUpTo(SeqsUpTo(AlignedWords, MaxSegmentWords), MaxSegments)
    /\ seg_index = 1
    /\ word_index = 0
    /\ aligned_words = <<>>
    /\ IdleExcept({"backfill"})

\* lines 142-152: one iteration of the inner loop
BackfillWord ==
    /\ bpc = "loop"
    /\ seg_index <= Len(segments)
    /\ word_index < Len(segments[seg_index])
    /\ LET words == segments[seg_index]
           word == words[word_index + 1]
       IN  IF HasStart(word)
           THEN /\ aligned_words' =
                       Append(aligned_words,
                              [word |-> word.word, start |-> word.start,
                               end |-> word.end])
                /\ word_index' = word_index + 1
                /\ UNCHANGED <<bpc, segments>>
           ELSE IF RaisesKeyError(words, word_index)
           THEN /\ bpc' = "raised"
                /\ segments' =
                       [segments EXCEPT ![seg_index][word_index + 1] =
                           [word |-> word.word,
                            start |-> BackfilledStart(words, word_index)]]
                /\ UNCHANGED <<word_index, aligned_words>>
           ELSE LET start == BackfilledStart(words, word_index)
                    end == BackfilledEnd(words, word_index)
                IN  /\ segments' =
                           [segments EXCEPT ![seg_index][word_index + 1] =
                               [word |-> word.word, start |-> start, end |-> end]]
                    /\ aligned_words' =
                           Append(aligned_words,
                                  [word |-> word.word, start |-> start,
                                   end |-> end])
                    /\ word_index' = word_index + 1
                    /\ UNCHANGED bpc
    /\ UNCHANGED seg_index
    /\ UNCHANGED notBackfill

\* line 141: the outer loop goes to the next segment
BackfillSegment ==
    /\ bpc = "loop"
    /\ seg_index <= Len(segments)
    /\ word_index = Len(segments[seg_index])
    /\ seg_index' = seg_index + 1
    /\ word_index' = 0
    /\ UNCHANGED <<bpc, segments, aligned_words>>
    /\ UNCHANGED notBackfill

\* lines 154-158: the loops are over
BackfillReturn ==
    /\ bpc = "loop"
    /\ seg_index > Len(segments)
    /\ bpc' = "done"
    /\ UNCHANGED <<segments, seg_index, word_index, aligned_words>>
    /\ UNCHANGED notBackfill

BackfillNext == BackfillWord \/ BackfillSegment \/ BackfillReturn

SpecBackfill == BackfillInit /\ [][BackfillNext]_vars

\* the words of all segments, in order
RECURSIVE AllWords(_)
AllWords(segs) ==
    IF segs = <<>> THEN <<>> ELSE Head(segs) \o AllWords(Tail(segs))

\* C16: whichever words came back without timestamps, the function completes
\* without error and returns one entry per word of every segment, in order,
\* each with start and end defined.
C16_BackfillCompletes ==
    /\ bpc # "raised"
    /\ bpc = "done" =>
          /\ Len(aligned_words) = Len(AllWords(segments))
          /\ \A i \in 1..Len(aligned_words) :
                /\ aligned_words[i].word = AllWords(segments)[i].word
                /\ aligned_words[i].start \in Nat
                /\ aligned_words[i].end \in Nat

-----------------------------------------------------------------------------
(***************************************************************************)
(* tts and _process_chunks, get_tts.py lines 39-115.  Every chunk has a    *)
(* worker thread; the threads of one endpoint run in any interleaving of   *)
(* their three steps: reading the flag, the request, handling the response.*)
(***************************************************************************)
MaxChunks == 2

\* len(ENDPOINT_DATA), lines 16-23
NumEndpoints == 3

\* what requests.post may do: a response with status 200, a response with
\* another status, or requests.RequestException
Statuses == {"200", "500", "RequestException"}

\* response.json()[endpoint["response"]] of the endpoint for the chunk
Payload(e, i) == <<e, i>>

\* [""] * len(chunks), line 58
EmptyAudio(n) == [list |-> [i \in 1..n |-> <<>>]]

IsNone(data) == "none" \in DOMAIN data

\* line 115, with the flag ignored
ProcessChunksResultUnchecked(data, ok) == data

\* line 115
ProcessChunksResult(data, ok) == IF ok THEN data ELSE NoneData

\* the statement after a thread's last one
Finished == "finished"

TtsInit ==
    /\ tpc = "start"
    /\ chunks \in 1..MaxChunks
    /\ endpoint = 0
    /\ audio_data = NoneData
    /\ valid = TRUE
    /\ worker = <<>>
    /\ saved = <<>>
    /\ requests = {}
    /\ responses = {}
    /\ IdleExcept({"tts"})

\* lines 52-59: the inputs are valid, the list is made, the loop begins
TtsStart ==
    /\ tpc = "start"
    /\ tpc' = "endpoint"
    /\ audio_data' = EmptyAudio(chunks)
    /\ endpoint' = 1
    /\ UNCHANGED <<chunks, valid, worker, saved, requests, responses>>
    /\ UNCHANGED notTts

\* lines 60, 83, 107-111: _process_chunks is called and starts its threads
ProcessChunks ==
    /\ tpc = "endpoint"
    /\ endpoint <= NumEndpoints
    /\ tpc' = "workers"
    /\ valid' = TRUE
    /\ worker' = [i \in 1..chunks |-> "check"]
    /\ UNCHANGED <<chunks, endpoint, audio_data, saved, requests, responses>>
    /\ UNCHANGED notTts

\* lines 87-88: if not valid: return
WorkerCheck(i) ==
    /\ tpc = "workers"
    /\ worker[i] = "check"
    /\ worker' = [worker EXCEPT ![i] = IF valid THEN "post" ELSE Finished]
    /\ UNCHANGED <<tpc, chunks, endpoint, audio_data, valid, saved, requests,
                   responses>>
    /\ UNCHANGED notTts

\* lines 91-97: requests.post
WorkerPost(i) ==
    /\ tpc = "workers"
    /\ worker[i] = "post"
    /\ worker' = [worker EXCEPT ![i] = "response"]
    /\ requests' = requests \cup {[endpoint |-> endpoint, chunk |-> i]}
    /\ \E status \in Statuses :
          responses' = responses \cup
                           {[endpoint |-> endpoint, chunk |-> i, status |-> status]}
    /\ UNCHANGED <<tpc, chunks, endpoint, audio_data, valid, saved>>
    /\ UNCHANGED notTts

\* what the request of chunk i to the endpoint at hand brought back
StatusOf(i) ==
    CHOOSE status \in Statuses :
        [endpoint |-> endpoint, chunk |-> i, status |-> status] \in responses

\* lines 98-105: the response is handled.  audio_data[index] = ... on None
\* raises TypeError, which line 103 does not catch; that and the SystemExit of
\* line 105 end the thread and nothing else.
WorkerResponse(i) ==
    /\ tpc = "workers"
    /\ worker[i] = "response"
    /\ worker' = [worker EXCEPT ![i] = Finished]
    /\ IF StatusOf(i) = "200"
       THEN IF IsNone(audio_data)
            THEN UNCHANGED <<audio_data, valid>>
            ELSE /\ audio_data' =
                        [list |-> [audio_data.list EXCEPT ![i] = Payload(endpoint, i)]]
                 /\ UNCHANGED valid
       ELSE IF StatusOf(i) = "500"
       THEN /\ valid' = FALSE
            /\ UNCHANGED audio_data
       ELSE UNCHANGED <<audio_data, valid>>
    /\ UNCHANGED <<tpc, chunks, endpoint, saved, requests, responses>>
    /\ UNCHANGED notTts

\* lines 112-115 and 60-63: the threads are joined, _process_chunks returns,
\* and tts saves the audio and leaves the loop, or goes to the next endpoint
JoinAndReturn ==
    /\ tpc = "workers"
    /\ \A i \in 1..chunks : worker[i] = Finished
    /\ LET result == ProcessChunksResult(audio_data, valid)
       IN  /\ audio_data' = result
           /\ IF ~IsNone(result)
              THEN /\ saved' = Append(saved, result.list)
                   /\ tpc' = "done"
                   /\ UNCHANGED endpoint
              ELSE /\ tpc' = "endpoint"
                   /\ endpoint' = endpoint + 1
                   /\ UNCHANGED saved
    /\ UNCHANGED <<chunks, valid, worker, requests, responses>>
    /\ UNCHANGED notTts

\* line 59: ENDPOINT_DATA is exhausted
TtsReturn ==
    /\ tpc = "endpoint"
    /\ endpoint > NumEndpoints
    /\ tpc' = "done"
    /\ UNCHANGED <<chunks, endpoint, audio_data, valid, worker, saved, requests,
                   responses>>
    /\ UNCHANGED notTts

TtsNext ==
    \/ TtsStart
    \/ ProcessChunks
    \/ \E i \in 1..chunks : WorkerCheck(i)
    \/ \E i \in 1..chunks : WorkerPost(i)
    \/ \E i \in 1..chunks : WorkerResponse(i)
    \/ JoinAndReturn
    \/ TtsReturn

SpecTts == TtsInit /\ [][TtsNext]_vars

\* every chunk was sent to endpoint e and came back with status 200
AllOk(e) ==
    \A i \in 1..chunks :
        [endpoint |-> e, chunk |-> i, status |-> "200"] \in responses

\* endpoint e answered some chunk with another status than 200
SomeNon200(e) ==
    \E i \in 1..chunks :
        [endpoint |-> e, chunk |-> i, status |-> "500"] \in responses

\* C17: the endpoints are tried in list order and the audio is saved exactly
\* once, from the first endpoint that returned 200 for every chunk: when the
\* earlier endpoints returned a non-200 response and endpoint e returned 200 for
\* every chunk, the audio is saved with e's data and no endpoint after e is
\* contacted.
C17_SavedFromFirstGoodEndpoint ==
    tpc = "done" =>
        \A e \in 1..NumEndpoints :
            (AllOk(e) /\ \A d \in 1..(e - 1) : SomeNon200(d)) =>
                /\ saved = << [i \in 1..chunks |-> Payload(e, i)] >>
                /\ \A r \in requests : r.endpoint <= e

-----------------------------------------------------------------------------
(***************************************************************************)
(* retry, retry.py lines 8-67: the wrapper of a decorated function.  The   *)
(* function is any function: each call returns a value or raises an        *)
(* exception that "except Exception" catches.  time.sleep(delay) changes   *)
(* no state of the wrapper.                                                *)
(***************************************************************************)
MaxRetries == 3

\* the arguments a caller may give
Arguments == {"1, key='value'", "2"}

\* what one call of func may do
ReturnValues == {"success", None}
ExceptionTexts == {"error", "other error"}
Outcomes ==
    {[kind |-> "return", value |-> v] : v \in ReturnValues}
        \cup {[kind |-> "raise", value |-> e] : e \in ExceptionTexts}

\* line 46, with one attempt too many
LoopContinuesInclusive(a, n) == a <= n

\* line 46: for attempt in range(max_retries)
LoopContinues(a, n) == a < n

\* lines 63-65, with the last exception raised again
PropagatedLast(last_err) == last_err

\* lines 63-65: the wrapper logs and ends; no raise statement follows the loop
Propagated(last_err) == None

\* func.__name__, line 61
FuncName == "func"

\* lines 60-62, with the text "Before running" of line 45 and not the exception
MessageBeforeRunning(n, last_err) ==
    [func |-> FuncName, max_retries |-> n, exception |-> "Before running"]

\* lines 60-62: the argument of notify_discord,
\* f"{func.__name__} Failed after {max_retries} max_retries.\nException: {err}"
Message(n, last_err) ==
    [func |-> FuncName, max_retries |-> n, exception |-> last_err]

RetryInit ==
    /\ rpc = "loop"
    /\ max_retries \in 0..MaxRetries
    /\ notify \in BOOLEAN
    /\ func_args \in Arguments
    /\ attempt = 0
    /\ calls = <<>>
    /\ outcomes = <<>>
    /\ err = "Before running"
    /\ returned = None
    /\ propagated = None
    /\ notifications = <<>>
    /\ IdleExcept({"retry"})

\* lines 46-53: func is called and returns
RetryCallReturns ==
    /\ rpc = "loop"
    /\ LoopContinues(attempt, max_retries)
    /\ \E value \in ReturnValues :
          /\ outcomes' = Append(outcomes, [kind |-> "return", value |-> value])
          /\ returned' = value
    /\ calls' = Append(calls, func_args)
    /\ rpc' = "returned"
    /\ UNCHANGED <<max_retries, notify, func_args, attempt, err, propagated,
                   notifications>>
    /\ UNCHANGED notRetry

\* lines 46-48 and 54-58: func is called and raises
RetryCallRaises ==
    /\ rpc = "loop"
    /\ LoopContinues(attempt, max_retries)
    /\ \E e \in ExceptionTexts :
          /\ outcomes' = Append(outcomes, [kind |-> "raise", value |-> e])
          /\ err' = e
    /\ calls' = Append(calls, func_args)
    /\ attempt' = attempt + 1
    /\ UNCHANGED <<rpc, max_retries, notify, func_args, returned, propagated,
                   notifications>>
    /\ UNCHANGED notRetry

\* lines 59-65: the loop is over
RetryExhausted ==
    /\ rpc = "loop"
    /\ ~LoopContinues(attempt, max_retries)
    /\ rpc' = "exhausted"
    /\ notifications' =
           IF notify
           THEN Append(notifications, Message(max_retries, err))
           ELSE notifications
    /\ returned' = None
    /\ propagated' = Propagated(err)
    /\ UNCHANGED <<max_retries, notify, func_args, attempt, calls, outcomes, err>>
    /\ UNCHANGED notRetry

RetryNext == RetryCallReturns \/ RetryCallRaises \/ RetryExhausted

SpecRetry == RetryInit /\ [][RetryNext]_vars

\* C18: the wrapped function is called at most max_retries times, with the
\* caller's arguments each time; the wrapper returns the value of the first
\* call that does not raise, and no call follows that one.
C18_AtMostMaxRetriesCalls ==
    /\ Len(calls) <= max_retries
    /\ Len(outcomes) = Len(calls)
    /\ \A k \in 1..Len(calls) : calls[k] = func_args
    /\ \A k \in 1..(Len(outcomes) - 1) : outcomes[k].kind = "raise"
    /\ \A k \in 1..Len(outcomes) :
          outcomes[k].kind = "return" =>
              /\ rpc = "returned"
              /\ returned = outcomes[k].value
              /\ propagated = None

\* the second of three allowed attempts returned "success"
C18_Witness ==
    /\ rpc = "returned"
    /\ max_retries = 3
    /\ Len(calls) = 2
    /\ outcomes[1].kind = "raise"
    /\ returned = "success"

C20_LastExceptionRaised ==
    (rpc = "exhausted" /\ Len(outcomes) > 0) =>
        propagated = outcomes[Len(outcomes)].value

\* the text of the exception of the last attempt; line 45 when there was none
LastExceptionText ==
    IF outcomes = <<>> THEN "Before running" ELSE outcomes[Len(outcomes)].value

\* every one of the max_retries attempts was made and raised
AllAttemptsRaised ==
    /\ Len(outcomes) = max_retries
    /\ \A k \in 1..Len(outcomes) : outcomes[k].kind = "raise"

\* C21: notify_discord is called exactly once, after the last failed attempt
\* and with a message naming the function, max_retries and the last exception
\* text, if and only if notify is True and every one of the max_retries
\* attempts raised; it is never called when some attempt succeeded, nor while
\* attempts are left.
C21_NotifiesOnceWhenExhausted ==
    /\ rpc = "loop" => notifications = <<>>
    /\ rpc = "returned" => notifications = <<>>
    /\ rpc = "exhausted" =>
          /\ AllAttemptsRaised
          /\ notifications =
                 IF notify
                 THEN << [func |-> FuncName, max_retries |-> max_retries,
                          exception |-> LastExceptionText] >>
                 ELSE <<>>
    /\ notifications # <<>> => (notify /\ AllAttemptsRaised /\ rpc = "exhausted")

\* two attempts raised different exceptions and the notification was sent
C21_Witness ==
    /\ rpc = "exhausted"
    /\ notify
    /\ max_retries = 2
    /\ outcomes[1].value = "error"
    /\ outcomes[2].value = "other error"
    /\ Len(notifications) = 1
    /\ notifications[1].exception = "other error"

-----------------------------------------------------------------------------
(***************************************************************************)
(* ShortsMaker.generate_audio, shorts_maker.py lines 452-529, calling tts  *)
(* of get_tts.py, which line 39 wraps in retry(max_retries=3, delay=5).    *)
(* The wrapper of generate_audio itself hands the value through.           *)
(***************************************************************************)

\* get_tts.py line 39: max_retries of the wrapper of tts
TtsMaxRetries == 3

\* get_tts.py lines 25-34, two of the eight voices
VOICES == {"en_us_001", "en_us_006"}

\* what the caller may give as seed (shorts_maker.py lines 512-515)
Speakers == VOICES \cup {"not_a_voice"}

\* what the caller may give as text, after line 500 stripped it
SourceTexts == { <<>>, <<"a">> }

\* get_tts.py lines 66-70: _validate_inputs does not raise
ValidInputs(text, voice) == voice \in VOICES /\ text # <<>>

\* get_tts.py lines 67-70: the text of the ValueError
ValueErrorText(text, voice) ==
    IF voice \notin VOICES THEN "voice must be valid" ELSE "text must not be 'None'"

\* shorts_maker.py lines 519-529: the exception tts let through, if any,
\* decides the value
AudioResult(exception) == IF exception # None THEN "False" ELSE "True"

AudioInit ==
    /\ apc = "start"
    /\ source_txt \in SourceTexts
    /\ speaker \in Speakers
    /\ audio_generated = None
    /\ IdleExcept({"audio"})

\* shorts_maker.py line 520 and retry.py lines 40-45: generate_audio calls
\* tts, which is the wrapper made at get_tts.py line 39
GenerateAudioCallsTts ==
    /\ apc = "start"
    /\ apc' = "tts"
    /\ rpc' = "loop"
    /\ max_retries' = TtsMaxRetries
    /\ notify' = FALSE
    /\ func_args' = speaker
    /\ attempt' = 0
    /\ err' = "Before running"
    /\ UNCHANGED <<calls, outcomes, returned, propagated, notifications>>
    /\ UNCHANGED <<source_txt, speaker, audio_generated>>
    /\ UNCHANGED <<alignVars, groupVars, videoVars, filterVars, backfillVars,
                   ttsVars, configVars>>

\* retry.py lines 46-48: the wrapper calls tts
WrapperCallsTts ==
    /\ rpc = "loop"
    /\ tpc = "idle"
    /\ LoopContinues(attempt, max_retries)
    /\ calls' = Append(calls, func_args)
    /\ tpc' = "validate"
    /\ UNCHANGED <<rpc, max_retries, notify, func_args, attempt, outcomes, err,
                   returned, propagated, notifications>>
    /\ UNCHANGED <<chunks, endpoint, audio_data, valid, worker, saved, requests,
                   responses>>
    /\ UNCHANGED <<alignVars, groupVars, videoVars, filterVars, backfillVars,
                   audioVars, configVars>>

\* get_tts.py lines 52-53: _validate_inputs raises ValueError, or the text is
\* split into chunks
TtsValidate ==
    /\ tpc = "validate"
    /\ IF ValidInputs(source_txt, speaker)
       THEN /\ tpc' = "start"
            /\ chunks' \in 1..MaxChunks
       ELSE /\ tpc' = "raised"
            /\ UNCHANGED chunks
    /\ UNCHANGED <<endpoint, audio_data, valid, worker, saved, requests, responses>>
    /\ UNCHANGED notTts

\* retry.py lines 48-53: tts returned (None, it has no return statement)
WrapperTtsReturned ==
    /\ rpc = "loop"
    /\ tpc = "done"
    /\ rpc' = "returned"
    /\ outcomes' = Append(outcomes, [kind |-> "return", value |-> None])
    /\ returned' = None
    /\ UNCHANGED <<max_retries, notify, func_args, attempt, calls, err, propagated,
                   notifications>>
    /\ UNCHANGED notRetry

\* retry.py lines 54-58: tts raised, the exception is caught
WrapperTtsRaised ==
    /\ rpc = "loop"
    /\ tpc = "raised"
    /\ outcomes' = Append(outcomes, [kind |-> "raise",
                                     value |-> ValueErrorText(source_txt, speaker)])
    /\ err' = ValueErrorText(source_txt, speaker)
    /\ attempt' = attempt + 1
    /\ tpc' = "idle"
    /\ UNCHANGED <<rpc, max_retries, notify, func_args, calls, returned, propagated,
                   notifications>>
    /\ UNCHANGED <<chunks, endpoint, audio_data, valid, worker, saved, requests,
                   responses>>
    /\ UNCHANGED <<alignVars, groupVars, videoVars, filterVars, backfillVars,
                   audioVars, configVars>>

\* shorts_maker.py lines 519-529: the call of tts is over
GenerateAudioReturn ==
    /\ apc = "tts"
    /\ rpc \in {"returned", "exhausted"}
    /\ apc' = "done"
    /\ audio_generated' = AudioResult(propagated)
    /\ UNCHANGED <<source_txt, speaker>>
    /\ UNCHANGED <<alignVars, groupVars, videoVars, filterVars, backfillVars,
                   ttsVars, retryVars, configVars>>

AudioNext ==
    \/ GenerateAudioCallsTts
    \/ WrapperCallsTts
    \/ TtsValidate
    \/ TtsNext
    \/ WrapperTtsReturned
    \/ WrapperTtsRaised
    \/ RetryExhausted
    \/ GenerateAudioReturn

SpecAudio == AudioInit /\ [][AudioNext]_vars

\* C22: generate_audio returns True only if tts saved an audio file and False
\* otherwise, also when the voice is invalid or every endpoint fails.
C22_TrueOnlyIfAudioSaved ==
    apc = "done" =>
        /\ audio_generated \in {"True", "False"}
        /\ audio_generated = "True" <=> saved # <<>>

\* C23: tts called with a voice that is not in VOICES or with empty text
\* raises ValueError to its caller, and no request is sent to any endpoint.
C23_InvalidInputsRaiseToCaller ==
    (rpc \in {"returned", "exhausted"} /\ ~ValidInputs(source_txt, speaker)) =>
        /\ propagated = ValueErrorText(source_txt, speaker)
        /\ requests = {}

-----------------------------------------------------------------------------
\* C24: align_transcript_with_script raises ValueError if the transcript or
\* the script string is empty: with such an input it never gets to its loop
\* and never returns.
C24_EmptyInputRaisesValueError ==
    (transcript = <<>> \/ script_string = <<>>) => pc \in {"start", "raised"}

-----------------------------------------------------------------------------
(***************************************************************************)
(* shorts_maker.py: the globals MAX_RETRIES, DELAY and NOTIFY (lines       *)
(* 17-20), the decorators of the methods (lines 322, 390, 452, 531), which *)
(* Python evaluates when the class body is executed, and                   *)
(* ShortsMaker._setup_retry_config (lines 250-270), which __init__ calls.  *)
(* DELAY goes the way of MAX_RETRIES and NOTIFY and changes no state of    *)
(* the wrapper.                                                            *)
(***************************************************************************)

\* line 18: MAX_RETRIES: int = 1
DefaultMaxRetries == 1

\* line 20: NOTIFY: bool = False
DefaultNotify == FALSE

\* the "retry" sections a configuration may hold
RetryConfigs ==
    {[max_retries |-> n, notify |-> b] : n \in 1..MaxRetries, b \in BOOLEAN}

\* lines 259-263: retry_config
retry_config(section) ==
    IF section = NoRetrySection
    THEN [max_retries |-> 1, notify |-> FALSE]
    ELSE section

\* the module is being imported: lines 17-20 were executed
ConfigInit ==
    /\ cpc = "module"
    /\ cfg_retry \in RetryConfigs \cup {NoRetrySection}
    /\ MAX_RETRIES = DefaultMaxRetries
    /\ NOTIFY = DefaultNotify
    /\ IdleExcept({"config"})

\* lines 322, 390, 452, 531: @retry(max_retries=MAX_RETRIES, delay=DELAY,
\* notify=NOTIFY) is evaluated in the class body; the wrapper keeps the values
DecorateMethods ==
    /\ cpc = "module"
    /\ cpc' = "imported"
    /\ max_retries' = MAX_RETRIES
    /\ notify' = NOTIFY
    /\ UNCHANGED <<rpc, func_args, attempt, calls, outcomes, err, returned,
                   propagated, notifications>>
    /\ UNCHANGED <<cfg_retry, MAX_RETRIES, NOTIFY>>
    /\ UNCHANGED <<alignVars, groupVars, videoVars, filterVars, backfillVars,
                   ttsVars, audioVars>>

\* lines 173 and 250-270: ShortsMaker(config_file) sets the globals
SetupRetryConfig ==
    /\ cpc = "imported"
    /\ cpc' = "constructed"
    /\ MAX_RETRIES' = retry_config(cfg_retry).max_retries
    /\ NOTIFY' = retry_config(cfg_retry).notify
    /\ UNCHANGED cfg_retry
    /\ UNCHANGED <<alignVars, groupVars, videoVars, filterVars, backfillVars,
                   ttsVars, retryVars, audioVars>>

\* retry.py lines 40-45: a decorated method of the instance is called
CallMethod ==
    /\ cpc = "constructed"
    /\ rpc = "idle"
    /\ rpc' = "loop"
    /\ func_args' \in Arguments
    /\ attempt' = 0
    /\ err' = "Before running"
    /\ UNCHANGED <<max_retries, notify, calls, outcomes, returned, propagated,
                   notifications>>
    /\ UNCHANGED notRetry

ConfigNext ==
    \/ DecorateMethods
    \/ SetupRetryConfig
    \/ CallMethod
    \/ RetryCallReturns
    \/ RetryCallRaises
    \/ RetryExhausted

SpecConfig == ConfigInit /\ [][ConfigNext]_vars

\* C25: after a ShortsMaker is constructed from a configuration with a 'retry'
\* section, the wrappers of its methods use the configured values: a method
\* that always fails is attempted exactly the configured max_retries times,
\* and the failure is notified if and only if notify is configured.
C25_ConfiguredRetryValuesUsed ==
    (cpc = "constructed" /\ cfg_retry # NoRetrySection) =>
        /\ rpc # "idle" =>
              /\ max_retries = cfg_retry.max_retries
              /\ notify = cfg_retry.notify
        /\ rpc = "exhausted" =>
              /\ Len(calls) = cfg_retry.max_retries
              /\ (notifications # <<>>) = cfg_retry.notify

-----------------------------------------------------------------------------
\* the trimmed input words a to b, each followed by one space
WordsFromTo(a, b) ==
    Flatten([j \in 1..(b - a + 1) |->
                strip(audio_transcript[a + j - 1].word) \o <<" ">>])

\* C26: the 'word' field of every word entry is the concatenation of the
\* trimmed input words after the most recent sentence boundary up to and
\* including the entry's own word, each followed by one space; so the entry
\* after a terminating word holds its own word and a space only.
C26_WordFieldIsSentenceSoFar ==
    gpc \in {"loop", "done"} =>
        /\ Len(word_transcript) = count
        /\ \A i \in 1..Len(word_transcript) :
              /\ word_transcript[i].word = WordsFromTo(LastTerminator(i - 1) + 1, i)
              /\ (i > 1 /\ Terminates(audio_transcript[i - 1].word)) =>
                    word_transcript[i].word =
                        strip(audio_transcript[i].word) \o <<" ">>

\* three words were grouped: the second closes a sentence of two words and the
\* third starts anew
C26_Witness ==
    /\ gpc = "done"
    /\ Len(word_transcript) = 3
    /\ ~Terminates(audio_transcript[1].word)
    /\ Terminates(audio_transcript[2].word)
    /\ word_transcript[2].word = <<"a", " ", "a", ".", " ">>
    /\ word_transcript[3].word = <<"a", " ">>

-----------------------------------------------------------------------------
(***************************************************************************)
(* align_transcript_with_script on a long script and one short segment.    *)
(***************************************************************************)
LongScriptWords == 8

\* scripts of up to LongScriptWords tokens
LongScriptStrings == {join(ws) : ws \in SeqsUpTo(Tokens, LongScriptWords)}

\* transcripts of at most one segment
ShortTranscripts == {t \in Transcripts : Len(t) <= 1}

LongAlignInit ==
    /\ pc = "start"
    /\ transcript \in ShortTranscripts
    /\ script_string \in LongScriptStrings
    /\ script_words = <<>>
    /\ temp_transcript = <<>>
    /\ possible_windows = <<>>
    /\ best_matches = <<>>
    /\ remaining_before = <<>>
    /\ IdleExcept({"align"})

SpecLongAlign == LongAlignInit /\ [][AlignNext]_vars

\* the number of tokens iteration i took from the remaining reference
TokensRemoved(i) ==
    remaining_before[i]
        - (IF i < Len(remaining_before) THEN remaining_before[i + 1]
           ELSE Len(script_words))

\* C27: whatever the scorer returns, the text assigned to a segment of n
\* recognized tokens has at most n + 5 tokens, and no segment takes more than
\* n + 5 tokens from the remaining reference.
C27_AtMostNPlusFiveTokens ==
    \A i \in 1..Len(temp_transcript) :
        LET n == length_of_entry_text(transcript[i])
        IN  /\ Len(split(temp_transcript[i].text)) <= n + window_sizes[Len(window_sizes)]
            /\ TokensRemoved(i) <= n + window_sizes[Len(window_sizes)]

-----------------------------------------------------------------------------
(***************************************************************************)
(* _process_chunks as tts calls it for the first endpoint, that is with    *)
(* the list of line 58; a later call is given what the call before it      *)
(* returned.                                                               *)
(***************************************************************************)

\* the first call of _process_chunks has returned and tts has its result
FirstCallReturned ==
    \/ tpc = "endpoint" /\ endpoint = 2
    \/ tpc = "done" /\ endpoint = 1

\* a request to endpoint e ended in requests.RequestException
SomeException(e) ==
    \E i \in 1..chunks :
        [endpoint |-> e, chunk |-> i, status |-> "RequestException"] \in responses

C29_NoRequestAfterInvalid ==
    [][(\E i \in 1..chunks : WorkerPost(i)) => valid]_vars

\* C30: tts never saves audio in which the data of some chunk is missing: no
\* saved list holds the empty string of line 58, and nothing is saved from an
\* endpoint one of whose requests ended in requests.RequestException.
C30_NoPartialAudioSaved ==
    /\ \A k \in 1..Len(saved) : \A i \in 1..Len(saved[k]) : saved[k][i] # <<>>
    /\ (tpc = "done" /\ saved # <<>>) => ~SomeException(endpoint)

=============================================================================
